---------------------------- MODULE Spec2Model ----------------------------
(***************************************************************************)
(* Property-application layer of react-native-windows                      *)
(* (vnext/Microsoft.ReactNative/Utils/PropertyUtils.h): the edge / corner  *)
(* resolvers GetThickness and GetCornerRadius, and the TryUpdate* handlers *)
(* that apply one (propertyName, propertyValue) update to a shadow node    *)
(* and its XAML element.                                                   *)
(*                                                                         *)
(* Numbers are the C++ doubles of the source restricted to small integers; *)
(* on that domain every comparison and std::max of the source is exact.    *)
(***************************************************************************)
EXTENDS Integers, FiniteSets, Sequences

VARIABLES
  node,             \* the ShadowNodeBase: m_padding, m_border, m_cornerRadius, m_onMouse{Enter,Leave,Move}
  element,          \* the XAML element's properties the handlers read and write
  isTextDecorationsSupported, \* the function-local static of TryUpdateTextDecorationLine
  call,             \* the last call made: [fn, propertyName, propertyValue]
  ret,              \* what that call returned: "true", "false", "void", "throw" ("none" before any call)
  calls,            \* number of calls made so far
  batch,            \* an update batch the view manager delivers (a set of [propertyName, propertyValue])
  pending,          \* the updates of the batch not yet applied
  thicknesses,      \* GetThickness called on its own: the argument
  thickness,        \* ... and its result (<<>> before the call)
  cornerRadii,      \* GetCornerRadius called on its own: the argument
  cornerRadius      \* ... and its result (<<>> before the call)

resolveVars == <<thicknesses, thickness, cornerRadii, cornerRadius>>
vars == <<node, element, isTextDecorationsSupported, call, ret, calls, batch, pending,
          thicknesses, thickness, cornerRadii, cornerRadius>>

---------------------------------------------------------------------------
(* Bounds of the model *)

\* Largest number a property update carries.
MaxNum == 1
\* Calls made on a view, new or styled, when every handler group is in play.
MaxCalls == 1
\* Calls made on a node when one handler group is exercised alone.
MaxUpdates == 3
\* Size of an update batch whose delivery order is left open.
MaxBatch == 2

---------------------------------------------------------------------------
(* Values *)

\* The "undefined" sentinel of an edge / corner slot (Views/ShadowNodeBase.h).
\* PropertyUtils.h only requires it to be a number that std::max(0, .) turns into 0.
c_UndefinedEdge == -1

\* The numbers an update may carry: one value below the sentinel, the sentinel
\* itself, zero, and the positive values up to MaxNum.
Nums == (c_UndefinedEdge - 1) .. MaxNum

\* The slots of an edge array (enum ShadowEdges) and of a corner array (enum ShadowCorners).
ShadowEdges == {"Left", "Top", "Right", "Bottom", "Start", "End", "Horizontal", "Vertical", "AllEdges"}
ShadowCorners == {"TopLeft", "TopRight", "BottomRight", "BottomLeft",
                  "TopStart", "TopEnd", "BottomStart", "BottomEnd", "AllCorners"}

\* A freshly constructed node: every slot undefined.
UndefinedEdges == [e \in ShadowEdges |-> c_UndefinedEdge]
UndefinedCorners == [c \in ShadowCorners |-> c_UndefinedEdge]

Max(a, b) == IF a >= b THEN a ELSE b

---------------------------------------------------------------------------
(* Edge / corner resolution *)

\* static double DefaultOrOverride(double defaultValue, double x)
DefaultOrOverride(defaultValue, x) == IF x # c_UndefinedEdge THEN x ELSE defaultValue

\* A plausible slip in GetThickness: the AllEdges slot is used as the default as it is.
GetThickness_unclampedDefault(t) ==
  LET defaultWidth == t["AllEdges"]
      startWidth == DefaultOrOverride(t["Left"], t["Start"])
      endWidth == DefaultOrOverride(t["Right"], t["End"])
      horiz(d) == IF t["Horizontal"] # c_UndefinedEdge THEN t["Horizontal"] ELSE d
      vert(d) == IF t["Vertical"] # c_UndefinedEdge THEN t["Vertical"] ELSE d
  IN [Left   |-> IF startWidth # c_UndefinedEdge THEN startWidth ELSE horiz(defaultWidth),
      Top    |-> IF t["Top"] # c_UndefinedEdge THEN t["Top"] ELSE vert(defaultWidth),
      Right  |-> IF endWidth # c_UndefinedEdge THEN endWidth ELSE horiz(defaultWidth),
      Bottom |-> IF t["Bottom"] # c_UndefinedEdge THEN t["Bottom"] ELSE vert(defaultWidth)]

\* A plausible slip in GetThickness: Horizontal is written to Left only.
GetThickness_horizontalLeftOnly(t) ==
  LET defaultWidth == Max(0, t["AllEdges"])
      startWidth == DefaultOrOverride(t["Left"], t["Start"])
      endWidth == DefaultOrOverride(t["Right"], t["End"])
      horiz == IF t["Horizontal"] # c_UndefinedEdge THEN t["Horizontal"] ELSE defaultWidth
      vert == IF t["Vertical"] # c_UndefinedEdge THEN t["Vertical"] ELSE defaultWidth
  IN [Left   |-> IF startWidth # c_UndefinedEdge THEN startWidth ELSE horiz,
      Top    |-> IF t["Top"] # c_UndefinedEdge THEN t["Top"] ELSE vert,
      Right  |-> IF endWidth # c_UndefinedEdge THEN endWidth ELSE defaultWidth,
      Bottom |-> IF t["Bottom"] # c_UndefinedEdge THEN t["Bottom"] ELSE vert]

\* inline xaml::Thickness GetThickness(double thicknesses[CountEdges])
GetThickness(t) ==
  LET defaultWidth == Max(0, t["AllEdges"])
      startWidth == DefaultOrOverride(t["Left"], t["Start"])
      endWidth == DefaultOrOverride(t["Right"], t["End"])
      \* thickness = {defaultWidth, ...}; then Horizontal, Vertical overwrite when defined
      horiz == IF t["Horizontal"] # c_UndefinedEdge THEN t["Horizontal"] ELSE defaultWidth
      vert == IF t["Vertical"] # c_UndefinedEdge THEN t["Vertical"] ELSE defaultWidth
  IN [Left   |-> IF startWidth # c_UndefinedEdge THEN startWidth ELSE horiz,
      Top    |-> IF t["Top"] # c_UndefinedEdge THEN t["Top"] ELSE vert,
      Right  |-> IF endWidth # c_UndefinedEdge THEN endWidth ELSE horiz,
      Bottom |-> IF t["Bottom"] # c_UndefinedEdge THEN t["Bottom"] ELSE vert]

\* inline xaml::CornerRadius GetCornerRadius(double cornerRadii[CountCorners])
GetCornerRadius(r) ==
  LET defaultRadius == Max(0, r["AllCorners"])
      topStartRadius == DefaultOrOverride(r["TopLeft"], r["TopStart"])
      topEndRadius == DefaultOrOverride(r["TopRight"], r["TopEnd"])
      bottomStartRadius == DefaultOrOverride(r["BottomLeft"], r["BottomStart"])
      bottomEndRadius == DefaultOrOverride(r["BottomRight"], r["BottomEnd"])
  IN [TopLeft     |-> DefaultOrOverride(defaultRadius, topStartRadius),
      TopRight    |-> DefaultOrOverride(defaultRadius, topEndRadius),
      BottomLeft  |-> DefaultOrOverride(defaultRadius, bottomStartRadius),
      BottomRight |-> DefaultOrOverride(defaultRadius, bottomEndRadius)]

\* xaml::ThicknessHelper::FromUniformLength(0.0)
\* and the CornerRadius an element has before any is applied
ZeroThickness == [Left |-> 0, Top |-> 0, Right |-> 0, Bottom |-> 0]
ZeroCornerRadius == [TopLeft |-> 0, TopRight |-> 0, BottomLeft |-> 0, BottomRight |-> 0]

---------------------------------------------------------------------------
(* folly::dynamic property values *)

Number(n) == [type |-> "number", num |-> n, str |-> "", bool |-> FALSE]
String(s) == [type |-> "string", num |-> 0, str |-> s, bool |-> FALSE]
Bool(b) == [type |-> "bool", num |-> 0, str |-> "", bool |-> b]
Null == [type |-> "null", num |-> 0, str |-> "", bool |-> FALSE]

isNumber(v) == v.type = "number"
isString(v) == v.type = "string"
isNull(v) == v.type = "null"
asDouble(v) == v.num
getString(v) == v.str

\* folly::dynamic::asBool as TryUpdateMouseEvents uses it, with no type check before
\* it: a boolean is itself, a number is "non-zero", a string is parsed as a boolean
\* word and the conversion throws on any other string.
TrueWords == {"1", "true", "yes", "on", "t", "y"}
FalseWords == {"0", "false", "no", "off", "f", "n"}
asBoolThrows(v) == isString(v) /\ v.str \notin (TrueWords \cup FalseWords)
asBool(v) ==
  CASE v.type = "bool" -> v.bool
    [] v.type = "number" -> v.num # 0
    [] v.type = "string" -> v.str \in TrueWords
    [] OTHER -> FALSE

\* The strings an update may carry: a token a handler knows and one that none knows.
Strs == {"bold", "purple"}

\* The values an update may carry.
Dyn == {Number(n) : n \in Nums} \cup {String(s) : s \in Strs} \cup {Bool(TRUE), Bool(FALSE), Null}

---------------------------------------------------------------------------
(* Property names *)

\* static const std::unordered_map<std::string, ShadowEdges> edgeTypeMap
edgeTypeMap ==
  [n \in {"borderLeftWidth", "borderTopWidth", "borderRightWidth", "borderBottomWidth",
          "borderStartWidth", "borderEndWidth", "borderWidth"} |->
     CASE n = "borderLeftWidth" -> "Left"
       [] n = "borderTopWidth" -> "Top"
       [] n = "borderRightWidth" -> "Right"
       [] n = "borderBottomWidth" -> "Bottom"
       [] n = "borderStartWidth" -> "Start"
       [] n = "borderEndWidth" -> "End"
       [] n = "borderWidth" -> "AllEdges"]

\* The if / else-if chain of TryUpdatePadding: property name -> edge.
paddingEdgeMap ==
  [n \in {"paddingLeft", "paddingTop", "paddingRight", "paddingBottom", "paddingStart",
          "paddingEnd", "paddingHorizontal", "paddingVertical", "padding"} |->
     CASE n = "paddingLeft" -> "Left"
       [] n = "paddingTop" -> "Top"
       [] n = "paddingRight" -> "Right"
       [] n = "paddingBottom" -> "Bottom"
       [] n = "paddingStart" -> "Start"
       [] n = "paddingEnd" -> "End"
       [] n = "paddingHorizontal" -> "Horizontal"
       [] n = "paddingVertical" -> "Vertical"
       [] n = "padding" -> "AllEdges"]

\* The if / else-if chain of TryUpdateCornerRadiusOnNode: property name -> corner.
cornerMap ==
  [n \in {"borderTopLeftRadius", "borderTopRightRadius", "borderTopStartRadius",
          "borderTopEndRadius", "borderBottomRightRadius", "borderBottomLeftRadius",
          "borderBottomStartRadius", "borderBottomEndRadius", "borderRadius"} |->
     CASE n = "borderTopLeftRadius" -> "TopLeft"
       [] n = "borderTopRightRadius" -> "TopRight"
       [] n = "borderTopStartRadius" -> "TopStart"
       [] n = "borderTopEndRadius" -> "TopEnd"
       [] n = "borderBottomRightRadius" -> "BottomRight"
       [] n = "borderBottomLeftRadius" -> "BottomLeft"
       [] n = "borderBottomStartRadius" -> "BottomStart"
       [] n = "borderBottomEndRadius" -> "BottomEnd"
       [] n = "borderRadius" -> "AllCorners"]

BorderNames == {"borderColor"} \cup DOMAIN edgeTypeMap
PaddingNames == DOMAIN paddingEdgeMap
CornerNames == DOMAIN cornerMap
FontNames == {"fontSize", "fontFamily", "fontWeight", "fontStyle"}
FlowDirectionNames == {"writingDirection", "direction"}
CharacterSpacingNames == {"letterSpacing", "characterSpacing"}
MouseNames == {"onMouseEnter", "onMouseLeave", "onMouseMove"}

\* Every name some handler recognizes, and one that none does.
PropNames ==
  {"backgroundColor", "color", "textAlign", "ellipsizeMode", "textDecorationLine",
   "orientation", "unknownProp"}
  \cup BorderNames \cup PaddingNames \cup CornerNames \cup FontNames
  \cup FlowDirectionNames \cup CharacterSpacingNames \cup MouseNames

---------------------------------------------------------------------------
(* The element *)

\* A XAML property that a handler sets or clears: <<>> when no local value is set
\* (ClearValue, or never set), <<x>> when x is set.
Unset == <<>>
Set(x) == <<x>>

\* BrushFrom(propertyValue): the solid brush of a colour number.
BrushFrom(v) == [kind |-> "solid", color |-> asDouble(v)]
\* DefaultBrushStore::Instance().GetDefaultBorderBrush(): the process-wide brush.
DefaultBorderBrush == [kind |-> "default", color |-> 0]
\* IsValidColorValue (Utils/ValueUtils.h): a colour arrives as a number.
IsValidColorValue(v) == isNumber(v)

InitElement ==
  [Padding |-> ZeroThickness,
   BorderThickness |-> ZeroThickness,
   CornerRadius |-> ZeroCornerRadius,
   BorderBrush |-> Unset,
   Background |-> Unset,
   Foreground |-> Unset,
   \* what UpdateControl{Background,Foreground,Border}ResourceBrushes was last given
   BackgroundResource |-> Unset,
   ForegroundResource |-> Unset,
   BorderResource |-> Unset,
   FontSize |-> Unset,
   FontFamily |-> Unset,
   FontWeight |-> Unset,
   FontStyle |-> Unset,
   TextAlignment |-> Unset,
   TextTrimming |-> Unset,
   TextDecorations |-> Unset,
   FlowDirection |-> Unset,
   CharacterSpacing |-> Unset,
   Orientation |-> Unset]

NoCall == [fn |-> "none", propertyName |-> "", propertyValue |-> Null]


InitNode ==
  [m_padding |-> UndefinedEdges,
   m_border |-> UndefinedEdges,
   m_cornerRadius |-> UndefinedCorners,
   m_onMouseEnter |-> FALSE,
   m_onMouseLeave |-> FALSE,
   m_onMouseMove |-> FALSE]

\* What a call leaves behind: the node, the element, and the value it returned.
Result(n, e, r) == [node |-> n, element |-> e, ret |-> r]

---------------------------------------------------------------------------
(* Padding, border thickness, corner radius *)

\* A plausible slip in UpdatePadding: the written slot is applied on top of the
\* element's current Padding instead of re-resolving the whole array.
UpdatePadding_incremental(n, e, edge, margin) ==
  LET n1 == [n EXCEPT !.m_padding[edge] = margin]
      p == e.Padding
  IN [node |-> n1,
      element |-> [e EXCEPT !.Padding =
        [Left   |-> IF edge \in {"Left", "Start", "Horizontal", "AllEdges"} THEN margin ELSE p.Left,
         Top    |-> IF edge \in {"Top", "Vertical", "AllEdges"} THEN margin ELSE p.Top,
         Right  |-> IF edge \in {"Right", "End", "Horizontal", "AllEdges"} THEN margin ELSE p.Right,
         Bottom |-> IF edge \in {"Bottom", "Vertical", "AllEdges"} THEN margin ELSE p.Bottom]]]

\* void UpdatePadding(ShadowNodeBase *node, const T &element, ShadowEdges edge, double margin)
UpdatePadding(n, e, edge, margin) ==
  LET n1 == [n EXCEPT !.m_padding[edge] = margin]
  IN [node |-> n1, element |-> [e EXCEPT !.Padding = GetThickness(n1.m_padding)]]

\* void SetBorderThickness(ShadowNodeBase *node, const T &element, ShadowEdges edge, double margin)
SetBorderThickness(n, e, edge, margin) ==
  LET n1 == [n EXCEPT !.m_border[edge] = margin]
  IN [node |-> n1, element |-> [e EXCEPT !.BorderThickness = GetThickness(n1.m_border)]]

\* void UpdateCornerRadiusValueOnNode(ShadowNodeBase *node, ShadowCorners corner, const folly::dynamic &propertyValue)
UpdateCornerRadiusValueOnNode(n, corner, propertyValue) ==
  IF isNumber(propertyValue)
    THEN [n EXCEPT !.m_cornerRadius[corner] = asDouble(propertyValue)]
    ELSE [n EXCEPT !.m_cornerRadius[corner] = c_UndefinedEdge]

\* void UpdateCornerRadiusOnElement(ShadowNodeBase *node, const T &element)
UpdateCornerRadiusOnElement(n, e) ==
  Result(n, [e EXCEPT !.CornerRadius = GetCornerRadius(n.m_cornerRadius)], "void")

\* A plausible slip in TryUpdatePadding: the last branch of the chain is a plain
\* else, so every other name is taken for "padding".
TryUpdatePadding_lastBranchElse(n, e, propertyName, propertyValue) ==
  LET edge == IF propertyName \in DOMAIN paddingEdgeMap THEN paddingEdgeMap[propertyName] ELSE "AllEdges"
  IN IF isNumber(propertyValue)
       THEN LET u == UpdatePadding(n, e, edge, asDouble(propertyValue))
            IN Result(u.node, u.element, "true")
       ELSE Result(n, e, "true")

\* bool TryUpdatePadding(node, element, propertyName, propertyValue)
TryUpdatePadding(n, e, propertyName, propertyValue) ==
  IF propertyName \in DOMAIN paddingEdgeMap
    THEN IF isNumber(propertyValue)
           THEN LET u == UpdatePadding(n, e, paddingEdgeMap[propertyName], asDouble(propertyValue))
                IN Result(u.node, u.element, "true")
           ELSE Result(n, e, "true")
    ELSE Result(n, e, "false")

\* A plausible slip in TryUpdateCornerRadiusOnNode: the radii are applied to the
\* element at once, as UpdatePadding does with the padding.
TryUpdateCornerRadiusOnNode_eager(n, e, propertyName, propertyValue) ==
  IF propertyName \in DOMAIN cornerMap
    THEN LET n1 == UpdateCornerRadiusValueOnNode(n, cornerMap[propertyName], propertyValue)
         IN Result(n1, UpdateCornerRadiusOnElement(n1, e).element, "true")
    ELSE Result(n, e, "false")

\* bool TryUpdateCornerRadiusOnNode(node, element, propertyName, propertyValue)
TryUpdateCornerRadiusOnNode(n, e, propertyName, propertyValue) ==
  IF propertyName \in DOMAIN cornerMap
    THEN Result(UpdateCornerRadiusValueOnNode(n, cornerMap[propertyName], propertyValue), e, "true")
    ELSE Result(n, e, "false")

\* A plausible slip: a null "borderColor" always clears the brush.
BorderBrushOnNullColor_alwaysClear(borderThickness) == Unset

\* TryUpdateBorderProperties, "borderColor" with a null value: the brush the element gets.
BorderBrushOnNullColor(borderThickness) ==
  IF borderThickness # ZeroThickness THEN Set(DefaultBorderBrush) ELSE Unset

\* A plausible slip: the default-brush fallback of a width update is left out.
AppliesDefaultBrush_never(width, borderBrush) == FALSE

\* A plausible slip: the default brush is applied whether or not a brush is set.
AppliesDefaultBrush_ignoresBrush(width, borderBrush) == width # 0

\* TryUpdateBorderProperties, a numeric width: whether the default brush is applied
\* (propertyValue.asDouble() != 0 && !element.BorderBrush()).
AppliesDefaultBrush(width, borderBrush) == width # 0 /\ borderBrush = Unset

\* bool TryUpdateBorderProperties(node, element, propertyName, propertyValue)
TryUpdateBorderProperties(n, e, propertyName, propertyValue) ==
  IF propertyName = "borderColor"
    THEN IF IsValidColorValue(propertyValue)
           THEN Result(n, [e EXCEPT !.BorderBrush = Set(BrushFrom(propertyValue)),
                                    !.BorderResource = Set(BrushFrom(propertyValue))], "true")
           ELSE IF isNull(propertyValue)
                  THEN Result(n, [e EXCEPT !.BorderBrush = BorderBrushOnNullColor(e.BorderThickness),
                                           !.BorderResource = Unset], "true")
                  ELSE Result(n, e, "true")
    ELSE IF propertyName \in DOMAIN edgeTypeMap
      THEN IF isNumber(propertyValue)
             THEN LET u == SetBorderThickness(n, e, edgeTypeMap[propertyName], asDouble(propertyValue))
                  IN IF AppliesDefaultBrush(asDouble(propertyValue), u.element.BorderBrush)
                       THEN Result(u.node, [u.element EXCEPT !.BorderBrush = Set(DefaultBorderBrush)], "true")
                       ELSE Result(u.node, u.element, "true")
             ELSE IF isNull(propertyValue)
                    THEN LET u == SetBorderThickness(n, e, edgeTypeMap[propertyName], 0)
                         IN Result(u.node, u.element, "true")
                    ELSE Result(n, e, "true")
      ELSE Result(n, e, "false")

---------------------------------------------------------------------------
(* Brushes *)

\* bool TryUpdateBackgroundBrush(element, propertyName, propertyValue)
TryUpdateBackgroundBrush(n, e, propertyName, propertyValue) ==
  IF propertyName = "backgroundColor"
    THEN IF IsValidColorValue(propertyValue)
           THEN Result(n, [e EXCEPT !.Background = Set(BrushFrom(propertyValue)),
                                    !.BackgroundResource = Set(BrushFrom(propertyValue))], "true")
           ELSE IF isNull(propertyValue)
                  THEN Result(n, [e EXCEPT !.Background = Unset, !.BackgroundResource = Unset], "true")
                  ELSE Result(n, e, "true")
    ELSE Result(n, e, "false")

\* bool TryUpdateForeground(element, propertyName, propertyValue)
TryUpdateForeground(n, e, propertyName, propertyValue) ==
  IF propertyName = "color"
    THEN IF IsValidColorValue(propertyValue)
           THEN Result(n, [e EXCEPT !.Foreground = Set(BrushFrom(propertyValue)),
                                    !.ForegroundResource = Set(BrushFrom(propertyValue))], "true")
           ELSE IF isNull(propertyValue)
                  THEN Result(n, [e EXCEPT !.Foreground = Unset, !.ForegroundResource = Unset], "true")
                  ELSE Result(n, e, "true")
    ELSE Result(n, e, "false")

---------------------------------------------------------------------------
(* Font and text *)

\* The fontWeight chain: "normal" -> FontWeights::Normal (400), "bold" ->
\* FontWeights::Bold (700), "100" .. "900" -> that weight, anything else -> Normal.
FontWeightOf(value) ==
  CASE value = "normal" -> 400
    [] value = "bold" -> 700
    [] value = "100" -> 100
    [] value = "200" -> 200
    [] value = "300" -> 300
    [] value = "400" -> 400
    [] value = "500" -> 500
    [] value = "600" -> 600
    [] value = "700" -> 700
    [] value = "800" -> 800
    [] value = "900" -> 900
    [] OTHER -> 400

\* bool TryUpdateFontProperties(element, propertyName, propertyValue)
TryUpdateFontProperties(n, e, propertyName, propertyValue) ==
  CASE propertyName = "fontSize" ->
         IF isNumber(propertyValue) THEN Result(n, [e EXCEPT !.FontSize = Set(asDouble(propertyValue))], "true")
         ELSE IF isNull(propertyValue) THEN Result(n, [e EXCEPT !.FontSize = Unset], "true")
         ELSE Result(n, e, "true")
    [] propertyName = "fontFamily" ->
         IF isString(propertyValue) THEN Result(n, [e EXCEPT !.FontFamily = Set(getString(propertyValue))], "true")
         ELSE IF isNull(propertyValue) THEN Result(n, [e EXCEPT !.FontFamily = Unset], "true")
         ELSE Result(n, e, "true")
    [] propertyName = "fontWeight" ->
         IF isString(propertyValue)
           THEN Result(n, [e EXCEPT !.FontWeight = Set(FontWeightOf(getString(propertyValue)))], "true")
         ELSE IF isNull(propertyValue) THEN Result(n, [e EXCEPT !.FontWeight = Unset], "true")
         ELSE Result(n, e, "true")
    [] propertyName = "fontStyle" ->
         IF isString(propertyValue)
           THEN Result(n, [e EXCEPT !.FontStyle =
                              Set(IF getString(propertyValue) = "italic" THEN "Italic" ELSE "Normal")], "true")
         ELSE IF isNull(propertyValue) THEN Result(n, [e EXCEPT !.FontStyle = Unset], "true")
         ELSE Result(n, e, "true")
    [] OTHER -> Result(n, e, "false")

\* void SetTextAlignment(element, value)
SetTextAlignment(e, value) ==
  [e EXCEPT !.TextAlignment =
     Set(CASE value = "left" -> "Left"
           [] value = "right" -> "Right"
           [] value = "center" -> "Center"
           [] value = "justify" -> "Justify"
           [] OTHER -> "DetectFromContent")]

\* bool TryUpdateTextAlignment(element, propertyName, propertyValue)
TryUpdateTextAlignment(n, e, propertyName, propertyValue) ==
  IF propertyName = "textAlign"
    THEN IF isString(propertyValue) THEN Result(n, SetTextAlignment(e, getString(propertyValue)), "true")
         ELSE IF isNull(propertyValue) THEN Result(n, [e EXCEPT !.TextAlignment = Unset], "true")
         ELSE Result(n, e, "true")
    ELSE Result(n, e, "false")

\* void SetTextTrimming(element, value)
SetTextTrimming(e, value) ==
  [e EXCEPT !.TextTrimming =
     Set(IF value = "clip" THEN "Clip"
         ELSE IF value \in {"head", "middle", "tail"} THEN "CharacterEllipsis"
         ELSE "None")]

\* bool TryUpdateTextTrimming(element, propertyName, propertyValue)
TryUpdateTextTrimming(n, e, propertyName, propertyValue) ==
  IF propertyName = "ellipsizeMode"
    THEN IF isString(propertyValue) THEN Result(n, SetTextTrimming(e, getString(propertyValue)), "true")
         ELSE IF isNull(propertyValue) THEN Result(n, [e EXCEPT !.TextTrimming = Unset], "true")
         ELSE Result(n, e, "true")
    ELSE Result(n, e, "false")

\* The TextDecorations mask of a textDecorationLine string (a set of flags).
TextDecorationsOf(value) ==
  CASE value = "none" -> {}
    [] value = "underline" -> {"Underline"}
    [] value = "line-through" -> {"Strikethrough"}
    [] value = "underline line-through" -> {"Underline", "Strikethrough"}
    [] OTHER -> {}

\* bool TryUpdateTextDecorationLine(element, propertyName, propertyValue)
\* `supported` is the value of the static isTextDecorationsSupported.
TryUpdateTextDecorationLine(supported, n, e, propertyName, propertyValue) ==
  IF propertyName = "textDecorationLine"
    THEN IF ~supported THEN Result(n, e, "true")
         ELSE IF isString(propertyValue)
           THEN Result(n, [e EXCEPT !.TextDecorations = Set(TextDecorationsOf(getString(propertyValue)))], "true")
         ELSE IF isNull(propertyValue) THEN Result(n, [e EXCEPT !.TextDecorations = Unset], "true")
         ELSE Result(n, e, "true")
    ELSE Result(n, e, "false")

\* void SetFlowDirection(element, value)
SetFlowDirection(e, value) ==
  IF value = "rtl" THEN [e EXCEPT !.FlowDirection = Set("RightToLeft")]
  ELSE IF value = "ltr" THEN [e EXCEPT !.FlowDirection = Set("LeftToRight")]
  ELSE [e EXCEPT !.FlowDirection = Unset]

\* bool TryUpdateFlowDirection(element, propertyName, propertyValue)
TryUpdateFlowDirection(n, e, propertyName, propertyValue) ==
  IF propertyName = "writingDirection" \/ propertyName = "direction"
    THEN IF isString(propertyValue) THEN Result(n, SetFlowDirection(e, getString(propertyValue)), "true")
         ELSE IF isNull(propertyValue) THEN Result(n, [e EXCEPT !.FlowDirection = Unset], "true")
         ELSE Result(n, e, "true")
    ELSE Result(n, e, "false")

\* static_cast<int32_t>(double): truncation; the identity on the integral numbers of the model.
static_cast_int32(x) == x

\* A plausible slip in TryUpdateCharacterSpacing: a plain else clears the property
\* for every value that is not a number.
TryUpdateCharacterSpacing_elseClears(n, e, propertyName, propertyValue) ==
  IF propertyName = "letterSpacing" \/ propertyName = "characterSpacing"
    THEN IF isNumber(propertyValue)
           THEN Result(n, [e EXCEPT !.CharacterSpacing = Set(static_cast_int32(asDouble(propertyValue)))], "true")
         ELSE Result(n, [e EXCEPT !.CharacterSpacing = Unset], "true")
    ELSE Result(n, e, "false")

\* bool TryUpdateCharacterSpacing(element, propertyName, propertyValue)
TryUpdateCharacterSpacing(n, e, propertyName, propertyValue) ==
  IF propertyName = "letterSpacing" \/ propertyName = "characterSpacing"
    THEN IF isNumber(propertyValue)
           THEN Result(n, [e EXCEPT !.CharacterSpacing = Set(static_cast_int32(asDouble(propertyValue)))], "true")
         ELSE IF isNull(propertyValue) THEN Result(n, [e EXCEPT !.CharacterSpacing = Unset], "true")
         ELSE Result(n, e, "true")
    ELSE Result(n, e, "false")

\* bool TryUpdateOrientation(element, propertyName, propertyValue)
TryUpdateOrientation(n, e, propertyName, propertyValue) ==
  IF propertyName = "orientation"
    THEN IF isNull(propertyValue) THEN Result(n, [e EXCEPT !.Orientation = Unset], "true")
         ELSE IF isString(propertyValue) /\ getString(propertyValue) = "horizontal"
           THEN Result(n, [e EXCEPT !.Orientation = Set("Horizontal")], "true")
         ELSE IF isString(propertyValue) /\ getString(propertyValue) = "vertical"
           THEN Result(n, [e EXCEPT !.Orientation = Set("Vertical")], "true")
         ELSE Result(n, e, "true")
    ELSE Result(n, e, "false")

---------------------------------------------------------------------------
(* Mouse events *)

\* bool TryUpdateMouseEvents(node, propertyName, propertyValue)
\* The flag is !propertyValue.isNull() && propertyValue.asBool(); a throwing asBool
\* leaves the handler before the flag is assigned.
TryUpdateMouseEvents(n, e, propertyName, propertyValue) ==
  IF propertyName \in {"onMouseEnter", "onMouseLeave", "onMouseMove"}
    THEN IF ~isNull(propertyValue) /\ asBoolThrows(propertyValue)
           THEN Result(n, e, "throw")
           ELSE LET flag == ~isNull(propertyValue) /\ asBool(propertyValue)
                IN CASE propertyName = "onMouseEnter" -> Result([n EXCEPT !.m_onMouseEnter = flag], e, "true")
                     [] propertyName = "onMouseLeave" -> Result([n EXCEPT !.m_onMouseLeave = flag], e, "true")
                     [] propertyName = "onMouseMove" -> Result([n EXCEPT !.m_onMouseMove = flag], e, "true")
    ELSE Result(n, e, "false")

---------------------------------------------------------------------------
(* Calls *)

HandlerNames ==
  {"TryUpdateBackgroundBrush", "TryUpdateForeground", "TryUpdateBorderProperties",
   "TryUpdatePadding", "TryUpdateCornerRadiusOnNode", "TryUpdateFontProperties",
   "TryUpdateTextAlignment", "TryUpdateTextTrimming", "TryUpdateTextDecorationLine",
   "TryUpdateFlowDirection", "TryUpdateCharacterSpacing", "TryUpdateOrientation",
   "TryUpdateMouseEvents"}

\* The handler of each dispatcher group, by name.
HandlerWith(supported, fn, n, e, propertyName, propertyValue) ==
  CASE fn = "TryUpdateBackgroundBrush" -> TryUpdateBackgroundBrush(n, e, propertyName, propertyValue)
    [] fn = "TryUpdateForeground" -> TryUpdateForeground(n, e, propertyName, propertyValue)
    [] fn = "TryUpdateBorderProperties" -> TryUpdateBorderProperties(n, e, propertyName, propertyValue)
    [] fn = "TryUpdatePadding" -> TryUpdatePadding(n, e, propertyName, propertyValue)
    [] fn = "TryUpdateCornerRadiusOnNode" -> TryUpdateCornerRadiusOnNode(n, e, propertyName, propertyValue)
    [] fn = "TryUpdateFontProperties" -> TryUpdateFontProperties(n, e, propertyName, propertyValue)
    [] fn = "TryUpdateTextAlignment" -> TryUpdateTextAlignment(n, e, propertyName, propertyValue)
    [] fn = "TryUpdateTextTrimming" -> TryUpdateTextTrimming(n, e, propertyName, propertyValue)
    [] fn = "TryUpdateTextDecorationLine" ->
         TryUpdateTextDecorationLine(supported, n, e, propertyName, propertyValue)
    [] fn = "TryUpdateFlowDirection" -> TryUpdateFlowDirection(n, e, propertyName, propertyValue)
    [] fn = "TryUpdateCharacterSpacing" -> TryUpdateCharacterSpacing(n, e, propertyName, propertyValue)
    [] fn = "TryUpdateOrientation" -> TryUpdateOrientation(n, e, propertyName, propertyValue)
    [] fn = "TryUpdateMouseEvents" -> TryUpdateMouseEvents(n, e, propertyName, propertyValue)

Handler(fn, n, e, propertyName, propertyValue) ==
  HandlerWith(isTextDecorationsSupported, fn, n, e, propertyName, propertyValue)

\* One call of a handler on the node and its element.
Invoke(fn, propertyName, propertyValue) ==
  LET r == Handler(fn, node, element, propertyName, propertyValue)
  IN /\ node' = r.node
     /\ element' = r.element
     /\ ret' = r.ret
     /\ call' = [fn |-> fn, propertyName |-> propertyName, propertyValue |-> propertyValue]
     /\ UNCHANGED isTextDecorationsSupported

\* The view manager applies the node's corner radii to the element.
InvokeUpdateCornerRadiusOnElement ==
  LET r == UpdateCornerRadiusOnElement(node, element)
  IN /\ node' = r.node
     /\ element' = r.element
     /\ ret' = r.ret
     /\ call' = [fn |-> "UpdateCornerRadiusOnElement", propertyName |-> "", propertyValue |-> Null]
     /\ UNCHANGED isTextDecorationsSupported

\* One more call, once the caller is done with the previous one, while fewer than
\* `bound` have been made.
Step(bound) ==
  /\ ret = "none"
  /\ calls < bound
  /\ calls' = calls + 1
  /\ UNCHANGED <<batch, pending, thicknesses, thickness, cornerRadii, cornerRadius>>

\* The caller is done with the call: its arguments and its return value are gone.
Return ==
  /\ ret # "none"
  /\ call' = NoCall
  /\ ret' = "none"
  /\ UNCHANGED <<node, element, isTextDecorationsSupported, calls, batch, pending,
                 thicknesses, thickness, cornerRadii, cornerRadius>>

NoBatch == batch = {} /\ pending = {}
NoResolve ==
  /\ thicknesses = UndefinedEdges
  /\ thickness = <<>>
  /\ cornerRadii = UndefinedCorners
  /\ cornerRadius = <<>>

\* A style sheet a view may have been given, as the calls that apply it.
SampleStyle ==
  << <<"TryUpdateBackgroundBrush", "backgroundColor", Number(1)>>,
     <<"TryUpdateForeground", "color", Number(1)>>,
     <<"TryUpdateBorderProperties", "borderColor", Number(1)>>,
     <<"TryUpdateBorderProperties", "borderWidth", Number(1)>>,
     <<"TryUpdatePadding", "padding", Number(1)>>,
     <<"TryUpdatePadding", "paddingStart", Number(0)>>,
     <<"TryUpdateCornerRadiusOnNode", "borderRadius", Number(1)>>,
     <<"TryUpdateFontProperties", "fontSize", Number(1)>>,
     <<"TryUpdateFontProperties", "fontFamily", String("bold")>>,
     <<"TryUpdateFontProperties", "fontWeight", String("bold")>>,
     <<"TryUpdateFontProperties", "fontStyle", String("italic")>>,
     <<"TryUpdateTextAlignment", "textAlign", String("left")>>,
     <<"TryUpdateTextTrimming", "ellipsizeMode", String("tail")>>,
     <<"TryUpdateTextDecorationLine", "textDecorationLine", String("underline")>>,
     <<"TryUpdateFlowDirection", "direction", String("rtl")>>,
     <<"TryUpdateCharacterSpacing", "letterSpacing", Number(1)>>,
     <<"TryUpdateOrientation", "orientation", String("vertical")>>,
     <<"TryUpdateMouseEvents", "onMouseEnter", Bool(TRUE)>> >>

\* What the calls of `style`, made in order after the call that left `r`, leave behind.
RECURSIVE Styled(_, _, _)
Styled(supported, r, style) ==
  IF style = <<>> THEN r
  ELSE Styled(supported,
              HandlerWith(supported, style[1][1], r.node, r.element, style[1][2], style[1][3]),
              Tail(style))

\* A view as constructed, or one that was given the sample style sheet and had its
\* corner radii applied.
StartStates(supported) ==
  {[node |-> InitNode, element |-> InitElement],
   LET s == Styled(supported, Result(InitNode, InitElement, "none"), SampleStyle)
       r == UpdateCornerRadiusOnElement(s.node, s.element)
   IN [node |-> r.node, element |-> r.element]}

---------------------------------------------------------------------------
(* Spec: every handler group, any property name, any value *)

Init ==
  /\ isTextDecorationsSupported \in BOOLEAN
  /\ \E s \in StartStates(isTextDecorationsSupported) : node = s.node /\ element = s.element
  /\ call = NoCall
  /\ ret = "none"
  /\ calls = 0
  /\ NoBatch
  /\ NoResolve

Background == Step(MaxCalls) /\ \E pn \in PropNames, pv \in Dyn : Invoke("TryUpdateBackgroundBrush", pn, pv)
Foreground == Step(MaxCalls) /\ \E pn \in PropNames, pv \in Dyn : Invoke("TryUpdateForeground", pn, pv)
Border == Step(MaxCalls) /\ \E pn \in PropNames, pv \in Dyn : Invoke("TryUpdateBorderProperties", pn, pv)
Padding == Step(MaxCalls) /\ \E pn \in PropNames, pv \in Dyn : Invoke("TryUpdatePadding", pn, pv)
CornerRadiusOnNode == Step(MaxCalls) /\ \E pn \in PropNames, pv \in Dyn : Invoke("TryUpdateCornerRadiusOnNode", pn, pv)
CornerRadiusOnElement == Step(MaxCalls) /\ InvokeUpdateCornerRadiusOnElement
Font == Step(MaxCalls) /\ \E pn \in PropNames, pv \in Dyn : Invoke("TryUpdateFontProperties", pn, pv)
TextAlignment == Step(MaxCalls) /\ \E pn \in PropNames, pv \in Dyn : Invoke("TryUpdateTextAlignment", pn, pv)
TextTrimming == Step(MaxCalls) /\ \E pn \in PropNames, pv \in Dyn : Invoke("TryUpdateTextTrimming", pn, pv)
TextDecorationLine == Step(MaxCalls) /\ \E pn \in PropNames, pv \in Dyn : Invoke("TryUpdateTextDecorationLine", pn, pv)
FlowDirection == Step(MaxCalls) /\ \E pn \in PropNames, pv \in Dyn : Invoke("TryUpdateFlowDirection", pn, pv)
CharacterSpacing == Step(MaxCalls) /\ \E pn \in PropNames, pv \in Dyn : Invoke("TryUpdateCharacterSpacing", pn, pv)
Orientation == Step(MaxCalls) /\ \E pn \in PropNames, pv \in Dyn : Invoke("TryUpdateOrientation", pn, pv)
MouseEvents == Step(MaxCalls) /\ \E pn \in PropNames, pv \in Dyn : Invoke("TryUpdateMouseEvents", pn, pv)

Next ==
  \/ Background
  \/ Foreground
  \/ Border
  \/ Padding
  \/ CornerRadiusOnNode
  \/ CornerRadiusOnElement
  \/ Font
  \/ TextAlignment
  \/ TextTrimming
  \/ TextDecorationLine
  \/ FlowDirection
  \/ CharacterSpacing
  \/ Orientation
  \/ MouseEvents
  \/ Return

Spec == Init /\ [][Next]_vars

---------------------------------------------------------------------------
(* SpecBorder: a new view that is given border updates only *)

InitNew ==
  /\ isTextDecorationsSupported = TRUE
  /\ node = InitNode
  /\ element = InitElement
  /\ call = NoCall
  /\ ret = "none"
  /\ calls = 0

InitBorder == InitNew /\ NoBatch /\ NoResolve

BorderUpdate ==
  Step(MaxUpdates) /\ \E pn \in BorderNames \cup {"unknownProp"}, pv \in Dyn :
                        Invoke("TryUpdateBorderProperties", pn, pv)

NextBorder == BorderUpdate \/ Return

SpecBorder == InitBorder /\ [][NextBorder]_vars

---------------------------------------------------------------------------
(* SpecCorner: a new view that is given corner-radius updates, applied now and then *)

InitCorner == InitNew /\ NoBatch /\ NoResolve

CornerUpdate ==
  Step(MaxUpdates) /\ \E pn \in CornerNames \cup {"unknownProp"}, pv \in Dyn :
                        Invoke("TryUpdateCornerRadiusOnNode", pn, pv)

CornerApply == Step(MaxUpdates) /\ InvokeUpdateCornerRadiusOnElement

NextCorner == CornerUpdate \/ CornerApply \/ Return

SpecCorner == InitCorner /\ [][NextCorner]_vars

---------------------------------------------------------------------------
(* SpecOrder: a batch of numeric padding (or border-width) updates to distinct *)
(* slots, delivered to a view in any order                                    *)

\* The batches of at least one and at most MaxBatch numeric updates of the names `names`,
\* no two to the same name.
BatchesOf(names) ==
  UNION {{{[propertyName |-> pn, propertyValue |-> Number(f[pn])] : pn \in S} : f \in [S -> Nums]} :
           S \in {T \in SUBSET names : Cardinality(T) \in 1..MaxBatch}}

PaddingBatches == BatchesOf(PaddingNames)
BorderWidthBatches == BatchesOf(DOMAIN edgeTypeMap)

InitOrder ==
  /\ isTextDecorationsSupported = TRUE
  /\ \E s \in StartStates(isTextDecorationsSupported) : node = s.node /\ element = s.element
  /\ call = NoCall
  /\ ret = "none"
  /\ calls = 0
  /\ batch \in PaddingBatches \cup BorderWidthBatches
  /\ pending = batch
  /\ NoResolve

\* The handler a batch's updates go to.
HandlerOf(propertyName) ==
  IF propertyName \in PaddingNames THEN "TryUpdatePadding" ELSE "TryUpdateBorderProperties"

Deliver(names) ==
  /\ ret = "none"
  /\ \E u \in pending :
       /\ u.propertyName \in names
       /\ Invoke(HandlerOf(u.propertyName), u.propertyName, u.propertyValue)
       /\ pending' = pending \ {u}
  /\ calls' = calls + 1
  /\ UNCHANGED <<batch, thicknesses, thickness, cornerRadii, cornerRadius>>

DeliverPadding == Deliver(PaddingNames)
DeliverBorderWidth == Deliver(DOMAIN edgeTypeMap)

NextOrder == DeliverPadding \/ DeliverBorderWidth \/ Return

SpecOrder == InitOrder /\ [][NextOrder]_vars

---------------------------------------------------------------------------
(* SpecResolve: GetThickness and GetCornerRadius called on an array *)

\* The values of a slot: undefined, or a width from 0 to MaxNum.
SlotValues == c_UndefinedEdge .. MaxNum

InitResolve ==
  /\ InitNew
  /\ NoBatch
  /\ \/ thicknesses \in [ShadowEdges -> SlotValues] /\ cornerRadii = UndefinedCorners
     \/ thicknesses = UndefinedEdges /\ cornerRadii \in [ShadowCorners -> SlotValues]
  /\ thickness = <<>>
  /\ cornerRadius = <<>>

CallGetThickness ==
  /\ thickness = <<>>
  /\ thickness' = <<GetThickness(thicknesses)>>
  /\ UNCHANGED <<node, element, isTextDecorationsSupported, call, ret, calls, batch, pending,
                 thicknesses, cornerRadii, cornerRadius>>

CallGetCornerRadius ==
  /\ cornerRadius = <<>>
  /\ cornerRadius' = <<GetCornerRadius(cornerRadii)>>
  /\ UNCHANGED <<node, element, isTextDecorationsSupported, call, ret, calls, batch, pending,
                 thicknesses, thickness, cornerRadii>>

NextResolve == CallGetThickness \/ CallGetCornerRadius

SpecResolve == InitResolve /\ [][NextResolve]_vars

---------------------------------------------------------------------------
(* Properties *)

ThicknessFields(t) == {t.Left, t.Top, t.Right, t.Bottom}
CornerRadiusFields(c) == {c.TopLeft, c.TopRight, c.BottomLeft, c.BottomRight}
\* Every slot of the array is undefined or holds a number >= 0.
NoNegativeSlot(array) == \A i \in DOMAIN array : array[i] = c_UndefinedEdge \/ array[i] >= 0

C2_PhysicalEdgeWins ==
  thickness # <<>> =>
    /\ (thicknesses["Left"] # c_UndefinedEdge /\ thicknesses["Start"] # c_UndefinedEdge)
         => thickness[1].Left = thicknesses["Left"]
    /\ (thicknesses["Right"] # c_UndefinedEdge /\ thicknesses["End"] # c_UndefinedEdge)
         => thickness[1].Right = thicknesses["Right"]

\* The corner GetCornerRadius is claimed to return: the physical slot if defined,
\* else the logical slot if defined, else max(0, AllCorners).
PhysicalThenLogical(r, physical, logical) ==
  IF r[physical] # c_UndefinedEdge THEN r[physical]
  ELSE IF r[logical] # c_UndefinedEdge THEN r[logical]
  ELSE Max(0, r["AllCorners"])

\* C3 (as stated): each corner GetCornerRadius returns is the physical slot if it
\* is defined, else the matching logical slot if it is defined, else max(0, AllCorners).
C3_PhysicalCornerWins ==
  cornerRadius # <<>> =>
    /\ cornerRadius[1].TopLeft = PhysicalThenLogical(cornerRadii, "TopLeft", "TopStart")
    /\ cornerRadius[1].TopRight = PhysicalThenLogical(cornerRadii, "TopRight", "TopEnd")
    /\ cornerRadius[1].BottomLeft = PhysicalThenLogical(cornerRadii, "BottomLeft", "BottomStart")
    /\ cornerRadius[1].BottomRight = PhysicalThenLogical(cornerRadii, "BottomRight", "BottomEnd")

\* C9: GetThickness fills broad to narrow. With Left, Right, Start and End
\* undefined, left = right = Horizontal if defined, else max(0, AllEdges); with Top
\* (Bottom) undefined, top (bottom) = Vertical if defined, else max(0, AllEdges);
\* only AllEdges = v >= 0 defined gives (v, v, v, v); nothing defined gives (0, 0, 0, 0).
C9_BroadToNarrow ==
  thickness # <<>> =>
    LET t == thicknesses
        r == thickness[1]
        d == Max(0, t["AllEdges"])
        undefined(S) == \A i \in S : t[i] = c_UndefinedEdge
    IN /\ undefined({"Left", "Right", "Start", "End"})
            => /\ r.Left = r.Right
               /\ r.Left = (IF t["Horizontal"] # c_UndefinedEdge THEN t["Horizontal"] ELSE d)
       /\ undefined({"Top"})
            => r.Top = (IF t["Vertical"] # c_UndefinedEdge THEN t["Vertical"] ELSE d)
       /\ undefined({"Bottom"})
            => r.Bottom = (IF t["Vertical"] # c_UndefinedEdge THEN t["Vertical"] ELSE d)
       /\ (undefined(ShadowEdges \ {"AllEdges"}) /\ t["AllEdges"] >= 0)
            => r = [Left |-> t["AllEdges"], Top |-> t["AllEdges"],
                    Right |-> t["AllEdges"], Bottom |-> t["AllEdges"]]
       /\ undefined(ShadowEdges) => r = ZeroThickness

\* C9 witness: GetThickness has resolved an array with Horizontal = 1 and
\* AllEdges = 0 defined and every other slot undefined.
C9_Witness ==
  /\ thicknesses = [UndefinedEdges EXCEPT !["Horizontal"] = 1, !["AllEdges"] = 0]
  /\ thickness = <<[Left |-> 1, Top |-> 0, Right |-> 1, Bottom |-> 0]>>

---------------------------------------------------------------------------
(* Properties of the calls *)

\* A step that makes a call (every call counts; Return and stuttering do not).
IsCall == calls' = calls + 1

\* The property names each dispatcher group recognizes, as the handlers spell them.
RecognizedNames(fn) ==
  CASE fn = "TryUpdateBackgroundBrush" -> {"backgroundColor"}
    [] fn = "TryUpdateForeground" -> {"color"}
    [] fn = "TryUpdateBorderProperties" ->
         {"borderColor", "borderLeftWidth", "borderTopWidth", "borderRightWidth",
          "borderBottomWidth", "borderStartWidth", "borderEndWidth", "borderWidth"}
    [] fn = "TryUpdatePadding" ->
         {"paddingLeft", "paddingTop", "paddingRight", "paddingBottom", "paddingStart",
          "paddingEnd", "paddingHorizontal", "paddingVertical", "padding"}
    [] fn = "TryUpdateCornerRadiusOnNode" ->
         {"borderTopLeftRadius", "borderTopRightRadius", "borderTopStartRadius",
          "borderTopEndRadius", "borderBottomRightRadius", "borderBottomLeftRadius",
          "borderBottomStartRadius", "borderBottomEndRadius", "borderRadius"}
    [] fn = "TryUpdateFontProperties" -> {"fontSize", "fontFamily", "fontWeight", "fontStyle"}
    [] fn = "TryUpdateTextAlignment" -> {"textAlign"}
    [] fn = "TryUpdateTextTrimming" -> {"ellipsizeMode"}
    [] fn = "TryUpdateTextDecorationLine" -> {"textDecorationLine"}
    [] fn = "TryUpdateFlowDirection" -> {"writingDirection", "direction"}
    [] fn = "TryUpdateCharacterSpacing" -> {"letterSpacing", "characterSpacing"}
    [] fn = "TryUpdateOrientation" -> {"orientation"}
    [] fn = "TryUpdateMouseEvents" -> {"onMouseEnter", "onMouseLeave", "onMouseMove"}
    [] OTHER -> {}

\* The dynamic types a group acts upon for a recognized name: number/string/null,
\* and boolean for the mouse flags.
AcceptedTypes(fn, propertyName) ==
  CASE fn \in {"TryUpdateBackgroundBrush", "TryUpdateForeground", "TryUpdateBorderProperties",
               "TryUpdateCornerRadiusOnNode", "TryUpdateCharacterSpacing"} -> {"number", "null"}
    [] fn = "TryUpdatePadding" -> {"number"}
    [] fn = "TryUpdateFontProperties" ->
         IF propertyName = "fontSize" THEN {"number", "null"} ELSE {"string", "null"}
    [] fn \in {"TryUpdateTextAlignment", "TryUpdateTextTrimming", "TryUpdateTextDecorationLine",
               "TryUpdateFlowDirection", "TryUpdateOrientation"} -> {"string", "null"}
    [] fn = "TryUpdateMouseEvents" -> {"bool", "null"}
    [] OTHER -> {}

\* The step is a call of a handler with a name it recognizes and a value of a type
\* it does not accept.
IsTypeMismatch ==
  /\ IsCall
  /\ call'.propertyName \in RecognizedNames(call'.fn)
  /\ call'.propertyValue.type \notin AcceptedTypes(call'.fn, call'.propertyName)

\* C7: in every dispatcher group, a call whose property name is not one of the
\* group's recognized names returns false and leaves the node (edge and corner
\* arrays, mouse flags) and every element property unchanged, whatever the value.
C7_UnrecognizedNameNotHandled ==
  [][(IsCall /\ call'.fn \in HandlerNames /\ call'.propertyName \notin RecognizedNames(call'.fn))
       => (ret' = "false" /\ node' = node /\ element' = element)]_vars

\* C7 witness: the border group was given "borderRadius", a name another group
\* recognizes, on a view with a border, and returned false.
C7_Witness ==
  /\ call.fn = "TryUpdateBorderProperties"
  /\ call.propertyName = "borderRadius"
  /\ call.propertyValue = Number(0)
  /\ ret = "false"
  /\ element.BorderThickness # ZeroThickness

---------------------------------------------------------------------------
(* Properties of the border *)

BorderWidthNames ==
  {"borderLeftWidth", "borderTopWidth", "borderRightWidth", "borderBottomWidth",
   "borderStartWidth", "borderEndWidth", "borderWidth"}

\* C5: a "borderColor" update with a null value sets the element's BorderBrush to
\* the default border brush when the element's BorderThickness is not uniformly
\* zero, and clears it only when the BorderThickness is uniformly zero; either way
\* the call reports handled.
C5_NullBorderColorKeepsVisibleBorder ==
  [][(IsCall /\ call'.fn = "TryUpdateBorderProperties" /\ call'.propertyName = "borderColor"
        /\ call'.propertyValue = Null)
       => /\ ret' = "true"
          /\ element.BorderThickness # ZeroThickness => element'.BorderBrush = Set(DefaultBorderBrush)
          /\ element.BorderThickness = ZeroThickness => element'.BorderBrush = Unset]_vars

\* C5 witness: a view with a border of a user colour was given a null
\* "borderColor" and now has the default border brush.
C5_Witness ==
  /\ call = [fn |-> "TryUpdateBorderProperties", propertyName |-> "borderColor", propertyValue |-> Null]
  /\ ret = "true"
  /\ element.BorderThickness # ZeroThickness
  /\ element.BorderBrush = Set(DefaultBorderBrush)
  /\ element.BorderResource = Unset

\* C6: a numeric border-width update applies the default border brush only when
\* the width is not 0 and the element has no BorderBrush: width 0 with no brush
\* leaves the BorderBrush unset, and a brush the element already has (user colour
\* or default) is never replaced.
C6_DefaultBrushOnlyForNonzeroWidthWithoutBrush ==
  [][(IsCall /\ call'.fn = "TryUpdateBorderProperties" /\ call'.propertyName \in BorderWidthNames
        /\ call'.propertyValue.type = "number")
       => /\ ret' = "true"
          /\ element'.BorderBrush =
               IF call'.propertyValue.num # 0 /\ element.BorderBrush = Unset
                 THEN Set(DefaultBorderBrush)
                 ELSE element.BorderBrush]_vars

\* C6 witness: a view with a user border colour was given a nonzero border width
\* and kept its brush.
C6_Witness ==
  /\ call = [fn |-> "TryUpdateBorderProperties", propertyName |-> "borderWidth", propertyValue |-> Number(1)]
  /\ ret = "true"
  /\ element.BorderThickness # ZeroThickness
  /\ element.BorderBrush = Set(BrushFrom(Number(1)))

\* C11: on a view that starts with zero BorderThickness and no BorderBrush, after
\* any sequence of border property updates (borderColor with a colour or null, any
\* border-width name with a number or null), whenever the element's BorderThickness
\* is not uniformly zero its BorderBrush is set, to a user colour brush or to the
\* default border brush: a visible border is never left without a brush.
C11_VisibleBorderHasBrush ==
  element.BorderThickness # ZeroThickness =>
    \/ element.BorderBrush = Set(DefaultBorderBrush)
    \/ \E n \in Nums : element.BorderBrush = Set(BrushFrom(Number(n)))

\* C11 witness: the second update given to a view that still had no border and no
\* brush was "borderLeftWidth" = 1, and the default brush came with the border.
C11_Witness ==
  /\ call = [fn |-> "TryUpdateBorderProperties", propertyName |-> "borderLeftWidth",
             propertyValue |-> Number(1)]
  /\ calls = 2
  /\ element.BorderResource = Unset
  /\ node.m_border = [UndefinedEdges EXCEPT !["Left"] = 1]
  /\ element.BorderThickness = [Left |-> 1, Top |-> 0, Right |-> 0, Bottom |-> 0]
  /\ element.BorderBrush = Set(DefaultBorderBrush)

---------------------------------------------------------------------------
(* Properties of the corner radius *)

\* C10: TryUpdateCornerRadiusOnNode with a recognized name writes only the node's
\* corner slot (the number if the value is a number, the undefined sentinel
\* otherwise), returns true and never changes the element; the element's
\* CornerRadius changes only in UpdateCornerRadiusOnElement, after which it is
\* GetCornerRadius of the node's corner array. So once a corner, whatever number it
\* was set to, is set to null, what the next application gives is the CornerRadius
\* of the array with that corner undefined.
C10_CornerRadiusTwoPhase ==
  [][/\ (IsCall /\ call'.fn = "TryUpdateCornerRadiusOnNode"
           /\ call'.propertyName \in RecognizedNames("TryUpdateCornerRadiusOnNode"))
          => /\ ret' = "true"
             /\ element' = element
             /\ node' = [node EXCEPT !.m_cornerRadius[cornerMap[call'.propertyName]] =
                           IF call'.propertyValue.type = "number"
                             THEN call'.propertyValue.num ELSE c_UndefinedEdge]
     /\ element'.CornerRadius # element.CornerRadius => call'.fn = "UpdateCornerRadiusOnElement"
     /\ (IsCall /\ call'.fn = "UpdateCornerRadiusOnElement")
          => /\ node' = node
             /\ element'.CornerRadius = GetCornerRadius(node.m_cornerRadius)
     /\ (IsCall /\ call'.fn = "TryUpdateCornerRadiusOnNode"
           /\ call'.propertyName \in RecognizedNames("TryUpdateCornerRadiusOnNode")
           /\ call'.propertyValue = Null)
          => GetCornerRadius(node'.m_cornerRadius) =
               GetCornerRadius([node.m_cornerRadius EXCEPT
                                  ![cornerMap[call'.propertyName]] = c_UndefinedEdge])]_vars

\* C10 witness: "borderRadius" was set to 1 and not applied yet: the node holds it
\* and the element's CornerRadius is still zero.
C10_Witness ==
  /\ call = [fn |-> "TryUpdateCornerRadiusOnNode", propertyName |-> "borderRadius",
             propertyValue |-> Number(1)]
  /\ ret = "true"
  /\ node.m_cornerRadius["AllCorners"] = 1
  /\ element.CornerRadius = ZeroCornerRadius

---------------------------------------------------------------------------
(* Properties of the arrival order *)

\* The updates of a batch as calls, in one fixed order.
RECURSIVE InOneOrder(_)
InOneOrder(updates) ==
  IF updates = {} THEN <<>>
  ELSE LET u == CHOOSE u \in updates : TRUE
       IN << <<HandlerOf(u.propertyName), u.propertyName, u.propertyValue>> >>
            \o InOneOrder(updates \ {u})

\* The view the batch was delivered to (the deliveries leave its font alone).
StartOf == CHOOSE s \in StartStates(TRUE) : s.element.FontSize = element.FontSize

\* C4: once every update of a batch of numeric padding (or border-width) updates to
\* distinct slots has been delivered, in whatever order, the node's edge array and
\* the Thickness applied to the element are those that delivering the batch in one
\* fixed order from the same starting state gives.
C4_ArrivalOrderIndependent ==
  pending = {} =>
    LET r == Styled(TRUE, Result(StartOf.node, StartOf.element, "none"), InOneOrder(batch))
    IN /\ node.m_padding = r.node.m_padding
       /\ node.m_border = r.node.m_border
       /\ element.Padding = r.element.Padding
       /\ element.BorderThickness = r.element.BorderThickness

\* C4 witness: "padding" = 1 arrived after "paddingLeft" = 0 on a new view, and the
\* more specific slot won: left 0, the other sides 1.
C4_Witness ==
  /\ batch = {[propertyName |-> "paddingLeft", propertyValue |-> Number(0)],
              [propertyName |-> "padding", propertyValue |-> Number(1)]}
  /\ pending = {}
  /\ call.propertyName = "padding"
  /\ element.FontSize = Unset
  /\ element.Padding = [Left |-> 0, Top |-> 1, Right |-> 1, Bottom |-> 1]

===========================================================================
